---- MODULE Spec2Model ----
(***************************************************************************)
(* sqlite3/sqlite_cfg.h: the compile-time configuration of the embedded    *)
(* SQLite engine.  The header is a list of preprocessor lines; the model   *)
(* is the C preprocessor consuming it, one line per step, into a macro     *)
(* table, in a build of one or more translation units, each started with   *)
(* its own command-line predefinitions (-D).                               *)
(***************************************************************************)
EXTENDS Integers, Sequences, FiniteSets, TLC

(* ------------------------------ tokens --------------------------------- *)

Id(s)   == [k |-> "id",      s |-> s,  n |-> 0]
Num(n)  == [k |-> "num",     s |-> "", n |-> n]
Hash(s) == [k |-> "hash",    s |-> s,  n |-> 0]
Cmt(s)  == [k |-> "comment", s |-> s,  n |-> 0]

(* ------------------------- the file, line by line ---------------------- *)

sqlite_cfg_h ==
  << <<Cmt("Platform Configuration")>>,
     << >>,
     <<Hash("define"), Id("SQLITE_OS_OTHER"), Num(1)>>,
     <<Hash("define"), Id("SQLITE_BYTEORDER"), Num(1234)>>,
     << >>,
     <<Hash("define"), Id("HAVE_ISNAN"), Num(1)>>,
     <<Hash("define"), Id("HAVE_USLEEP"), Num(1)>>,
     <<Hash("define"), Id("HAVE_MALLOC_USABLE_SIZE"), Num(1)>>,
     << >>,
     <<Cmt("Recommended Options")>>,
     << >>,
     <<Hash("define"), Id("SQLITE_DQS"), Num(0)>>,
     <<Hash("define"), Id("SQLITE_THREADSAFE"), Num(0)>>,
     <<Hash("define"), Id("SQLITE_DEFAULT_MEMSTATUS"), Num(0)>>,
     <<Hash("define"), Id("SQLITE_DEFAULT_WAL_SYNCHRONOUS"), Num(1)>>,
     <<Hash("define"), Id("SQLITE_LIKE_DOESNT_MATCH_BLOBS")>>,
     <<Hash("define"), Id("SQLITE_MAX_EXPR_DEPTH"), Num(0)>>,
     <<Hash("define"), Id("SQLITE_OMIT_DECLTYPE")>>,
     <<Hash("define"), Id("SQLITE_OMIT_DEPRECATED")>>,
     <<Hash("define"), Id("SQLITE_OMIT_PROGRESS_CALLBACK")>>,
     <<Hash("define"), Id("SQLITE_OMIT_SHARED_CACHE")>>,
     <<Hash("define"), Id("SQLITE_OMIT_AUTOINIT")>>,
     <<Hash("define"), Id("SQLITE_USE_ALLOCA")>>,
     << >>,
     <<Cmt("Need this to access WAL databases without the use of shared memory.")>>,
     <<Hash("define"), Id("SQLITE_DEFAULT_LOCKING_MODE"), Num(1)>>,
     <<Cmt("Go uses UTF-8 everywhere.")>>,
     <<Hash("define"), Id("SQLITE_OMIT_UTF16")>>,
     <<Cmt("Remove some testing code.")>>,
     <<Hash("define"), Id("SQLITE_UNTESTABLE")>> >>

\* The last line of the file, #define SQLITE_UNTESTABLE, has no newline after it.
EndsWithNewline == FALSE

(* --------------------------- directives -------------------------------- *)

NoName == ""

Dir(kind, name, body) == [kind |-> kind, name |-> name, body |-> body]

\* The tokens of a line up to a trailing comment.
RECURSIVE StripComment(_)
StripComment(toks) ==
  IF toks = << >> THEN << >>
  ELSE IF Head(toks).k = "comment" THEN << >>
  ELSE <<Head(toks)>> \o StripComment(Tail(toks))

DirectiveKinds ==
  {"define", "undef", "ifdef", "ifndef", "else", "endif", "include"}

\* What the preprocessor makes of one line of the file.
Directive(line) ==
  LET toks == StripComment(line) IN
  IF line = << >> THEN Dir("blank", NoName, << >>)
  ELSE IF toks = << >> THEN Dir("comment", NoName, << >>)
  ELSE IF toks[1].k # "hash" THEN Dir("text", NoName, toks)
  ELSE IF toks[1].s \notin DirectiveKinds THEN Dir("other", NoName, Tail(toks))
  ELSE IF toks[1].s \in {"else", "endif"} THEN Dir(toks[1].s, NoName, << >>)
  ELSE IF Len(toks) < 2 THEN Dir("other", NoName, << >>)
  ELSE Dir(toks[1].s, toks[2].s, SubSeq(toks, 3, Len(toks)))

Punct(s) == [k |-> "punct", s |-> s, n |-> 0]

\* The header with line i replaced by directive d.
WithLine(i, d) ==
  [j \in 1..Len(sqlite_cfg_h) |-> IF j = i THEN d ELSE Directive(sqlite_cfg_h[j])]

\* Variants of the header, each one slip away from it.
Header_WalSynchronous2 ==
  WithLine(15, Dir("define", "SQLITE_DEFAULT_WAL_SYNCHRONOUS", <<Num(2)>>))

Header_ThreadsafeOn == WithLine(13, Dir("define", "SQLITE_THREADSAFE", <<Num(1)>>))

Header_SharedCacheKept == WithLine(21, Dir("blank", NoName, << >>))

Header_NoMallocUsableSize ==
  WithLine(8, Dir("define", "HAVE_MALLOC_USABLE_SIZE", <<Num(0)>>))

Header_UndefThreadsafe == WithLine(24, Dir("undef", "SQLITE_THREADSAFE", << >>))

Header_ByteorderExpression ==
  WithLine(4, Dir("define", "SQLITE_BYTEORDER",
                  <<Id("__BYTE_ORDER__"), Punct("=="), Num(1234)>>))

Header_GuardedOptions ==
  [j \in 1..Len(sqlite_cfg_h) |->
     IF j = 11 THEN Dir("ifndef", "SQLITE_THREADSAFE", << >>)
     ELSE IF j = 24 THEN Dir("endif", NoName, << >>)
     ELSE Directive(sqlite_cfg_h[j])]

Header_Truncated ==
  [j \in 1..(Len(sqlite_cfg_h) - 1) |-> Directive(sqlite_cfg_h[j])]

Header_SharedLocking ==
  WithLine(26, Dir("define", "SQLITE_DEFAULT_LOCKING_MODE", <<Num(0)>>))

Header_DqsTwice == WithLine(17, Dir("define", "SQLITE_DQS", <<Num(1)>>))

\* The header as the preprocessor reads it.
Header == [i \in 1..Len(sqlite_cfg_h) |-> Directive(sqlite_cfg_h[i])]

Lines == 1..Len(Header)

\* The lines that hold a definition.
DefinitionLines == {i \in Lines : Header[i].kind = "define"}

\* The flag names the header defines.
HeaderFlags == {Header[i].name : i \in DefinitionLines}

(* ------------------- the build around the header ----------------------- *)

\* How many translation units (consumptions of the header) a build has.
MaxUnits == 2

\* How many -D options one compiler command line carries.
MaxPredef == 2

\* -D options a command line may carry: -DNAME predefines NAME as 1,
\* -DNAME=V as V.
Opt(name, body) == [name |-> name, body |-> body]

CmdLineOptions ==
  { Opt("SQLITE_THREADSAFE", <<Num(1)>>),
    Opt("SQLITE_THREADSAFE", <<Num(0)>>),
    Opt("SQLITE_DEFAULT_LOCKING_MODE", <<Num(0)>>),
    Opt("SQLITE_DEFAULT_WAL_SYNCHRONOUS", <<Num(2)>>),
    Opt("SQLITE_OMIT_UTF16", <<Num(1)>>),
    Opt("SQLITE_DEFAULT_JOURNAL_MODE", <<Id("WAL")>>),
    Opt("SQLITE_ENABLE_FTS5", <<Num(1)>>) }

CmdLines ==
  { S \in SUBSET CmdLineOptions :
      /\ Cardinality(S) <= MaxPredef
      /\ \A a, b \in S : a.name = b.name => a = b }

\* The flags the engine's conditional compilation is followed on.
InspectedFlags ==
  {"SQLITE_OMIT_UTF16", "SQLITE_OMIT_SHARED_CACHE", "SQLITE_ENABLE_FTS5"}

Flags == HeaderFlags \cup {o.name : o \in CmdLineOptions} \cup InspectedFlags

(* --------------------------- macro table ------------------------------- *)

Undefined == [def |-> FALSE, body |-> << >>]

Defined(body) == [def |-> TRUE, body |-> body]

NoMapping == [n \in Flags |-> Undefined]

Predefs(opts) ==
  [n \in Flags |->
     IF \E o \in opts : o.name = n
     THEN Defined((CHOOSE o \in opts : o.name = n).body)
     ELSE Undefined]

\* integer, mode (one identifier), presence (no value), or something else.
ValueKind(v) ==
  IF ~v.def THEN "undefined"
  ELSE IF v.body = << >> THEN "presence"
  ELSE IF Len(v.body) = 1 /\ v.body[1].k = "num" THEN "integer"
  ELSE IF Len(v.body) = 1 /\ v.body[1].k = "id" THEN "mode"
  ELSE "expression"

IntValue(v) == v.body[1].n

VARIABLES unit, status, remaining, macros, produced, cond, diag, paths, prev

vars == <<unit, status, remaining, macros, produced, cond, diag, paths, prev>>

Min(S) == CHOOSE x \in S : \A y \in S : x <= y

\* Every enclosing #ifdef / #ifndef group is taken.
Active(stack) == \A k \in 1..Len(stack) : stack[k]

\* A #define of a name already defined with another replacement list.
Conflicts(env, d) ==
  /\ d.kind = "define"
  /\ env[d.name].def
  /\ env[d.name].body # d.body

\* The macro table after directive d.
ApplyMacros(env, d, active) ==
  IF ~active THEN env
  ELSE IF d.kind = "define" THEN [env EXCEPT ![d.name] = Defined(d.body)]
  ELSE IF d.kind = "undef" /\ d.name \in Flags THEN [env EXCEPT ![d.name] = Undefined]
  ELSE env

\* The conditional-group stack after directive d.
ApplyCond(stack, env, d) ==
  IF d.kind = "ifdef" THEN Append(stack, d.name \in Flags /\ env[d.name].def)
  ELSE IF d.kind = "ifndef" THEN Append(stack, ~(d.name \in Flags /\ env[d.name].def))
  ELSE IF d.kind = "else" /\ stack # << >>
    THEN [stack EXCEPT ![Len(stack)] = ~stack[Len(stack)]]
  ELSE IF d.kind = "endif" /\ stack # << >> THEN SubSeq(stack, 1, Len(stack) - 1)
  ELSE stack

\* #else or #endif outside any group.
Unbalanced(stack, d) == d.kind \in {"else", "endif"} /\ stack = << >>

\* The preprocessor reads line i.  A conflicting redefinition is diagnosed:
\* the build either goes on with the new definition (outcome "warn") or
\* stops (outcome "error").
ProcessLine(i, outcome) ==
  LET d      == Header[i]
      active == Active(cond)
      clash  == active /\ Conflicts(macros, d)
      fail   == (clash /\ outcome = "error") \/ Unbalanced(cond, d)
      cond2  == ApplyCond(cond, macros, d)
      rest   == remaining \ {i}
  IN /\ status = "reading"
     /\ i \in remaining
     /\ remaining' = rest
     /\ IF fail
        THEN /\ status' = "error"
             /\ UNCHANGED <<macros, produced, cond, diag>>
        ELSE /\ macros' = ApplyMacros(macros, d, active)
             /\ produced' = ApplyMacros(produced, d, active)
             /\ cond' = cond2
             /\ diag' = IF clash THEN diag \cup {d.name} ELSE diag
             /\ status' = IF rest # {} THEN "reading"
                          ELSE IF cond2 = << >> THEN "done" ELSE "error"
     /\ UNCHANGED <<unit, paths, prev>>

\* The header is read top to bottom.
Consume == \E outcome \in {"warn", "error"} : ProcessLine(Min(remaining), outcome)

\* How far out of order a line may be taken: it is one of the MaxWindow
\* first lines not read yet (any line may be put off to the very end).
MaxWindow == 4

\* The lines of the header taken out of order.
ConsumeAny ==
  \E i \in remaining, outcome \in {"warn", "error"} :
     /\ Cardinality({j \in remaining : j < i}) < MaxWindow
     /\ ProcessLine(i, outcome)

\* The engine's source tests a flag (#ifdef n): its code is compiled or not.
Inspect ==
  \E n \in InspectedFlags :
     /\ status = "done"
     /\ paths' = [paths EXCEPT ![n] = IF macros[n].def THEN "live" ELSE "dead"]
     /\ UNCHANGED <<unit, status, remaining, macros, produced, cond, diag, prev>>

StartUnit(opts, lines) ==
  /\ status' = "reading"
  /\ remaining' = lines
  /\ macros' = Predefs(opts)
  /\ produced' = NoMapping
  /\ cond' = << >>
  /\ diag' = {}
  /\ paths' = [n \in InspectedFlags |-> "undecided"]

\* The next translation unit of the build is compiled, from its own command line.
NextUnit ==
  \E opts \in CmdLines :
     /\ status \in {"done", "error"}
     /\ unit < MaxUnits
     /\ unit' = unit + 1
     /\ prev' = IF status = "done" THEN produced ELSE prev
     /\ StartUnit(opts, Lines)

Init ==
  \E opts \in CmdLines :
     /\ unit = 1
     /\ prev = NoMapping
     /\ status = "reading"
     /\ remaining = Lines
     /\ macros = Predefs(opts)
     /\ produced = NoMapping
     /\ cond = << >>
     /\ diag = {}
     /\ paths = [n \in InspectedFlags |-> "undecided"]

Next == Consume \/ Inspect \/ NextUnit

Spec == Init /\ [][Next]_vars

\* The header's lines out of order, from an empty command line.
InitAnyOrder ==
  /\ unit = 1
  /\ prev = NoMapping
  /\ status = "reading"
  /\ remaining = Lines
  /\ macros = NoMapping
  /\ produced = NoMapping
  /\ cond = << >>
  /\ diag = {}
  /\ paths = [n \in InspectedFlags |-> "undecided"]

NextAnyOrder == ConsumeAny

SpecAnyOrder == InitAnyOrder /\ [][NextAnyOrder]_vars

(* ------------------------------ properties ----------------------------- *)

Done == status = "done"

\* Lines of the header read so far in this unit.
LinesRead == Len(Header) - Cardinality(remaining)

\* Newline characters in the file.
NewlineCount == IF EndsWithNewline THEN Len(sqlite_cfg_h) ELSE Len(sqlite_cfg_h) - 1

\* The header has set flag n to the integer v, and that is its value.
SetsInt(n, v) ==
  /\ ValueKind(produced[n]) = "integer"
  /\ IntValue(produced[n]) = v
  /\ macros[n] = produced[n]

\* The header has set flag n with no value, and that is how it stands.
SetsPresence(n) ==
  /\ ValueKind(produced[n]) = "presence"
  /\ macros[n] = produced[n]

Declarative == {"blank", "comment", "define"}

\* A name under which a build would choose the engine's default journal mode.
JournalModeFlag == "SQLITE_DEFAULT_JOURNAL_MODE"

\* C1 as claimed: in the mapping the header produces, the default journal
\* mode is WAL and the default WAL synchronous level is 1.
C1_Original ==
  Done => /\ produced[JournalModeFlag] = Defined(<<Id("WAL")>>)
          /\ SetsInt("SQLITE_DEFAULT_WAL_SYNCHRONOUS", 1)

\* C1 amended: the header sets the default synchronous level of WAL-mode
\* databases to 1 and selects no default journal mode: that flag is what the
\* command line made it.
C1_WalSynchronous ==
  Done => /\ SetsInt("SQLITE_DEFAULT_WAL_SYNCHRONOUS", 1)
          /\ ~produced[JournalModeFlag].def
          /\ JournalModeFlag \notin HeaderFlags

C1_Witness ==
  /\ Done
  /\ SetsInt("SQLITE_DEFAULT_WAL_SYNCHRONOUS", 1)
  /\ "SQLITE_DEFAULT_WAL_SYNCHRONOUS" \in diag
  /\ ~macros[JournalModeFlag].def

\* C2: the mapping the header produces has SQLITE_THREADSAFE = 0, whatever the
\* command line predefined; no consumption yields another value.
C2_Threadsafe ==
  /\ produced["SQLITE_THREADSAFE"].def => SetsInt("SQLITE_THREADSAFE", 0)
  /\ Done => produced["SQLITE_THREADSAFE"].def

C2_Witness ==
  /\ Done
  /\ "SQLITE_THREADSAFE" \in diag
  /\ SetsInt("SQLITE_THREADSAFE", 0)

\* C3: SQLITE_OMIT_UTF16 and SQLITE_OMIT_SHARED_CACHE are both present, with
\* no value, in the mapping the header produces, and the engine code that
\* tests them takes the omitting path.
C3_Omitted ==
  Done => \A n \in {"SQLITE_OMIT_UTF16", "SQLITE_OMIT_SHARED_CACHE"} :
             /\ SetsPresence(n)
             /\ paths[n] \in {"undecided", "live"}

C3_Witness ==
  /\ Done
  /\ SetsPresence("SQLITE_OMIT_UTF16")
  /\ SetsPresence("SQLITE_OMIT_SHARED_CACHE")
  /\ paths["SQLITE_OMIT_UTF16"] = "live"
  /\ paths["SQLITE_OMIT_SHARED_CACHE"] = "live"

\* C4: HAVE_ISNAN, HAVE_USLEEP and HAVE_MALLOC_USABLE_SIZE are each defined
\* as 1 in the mapping the header produces.
C4_Capabilities ==
  Done => \A n \in {"HAVE_ISNAN", "HAVE_USLEEP", "HAVE_MALLOC_USABLE_SIZE"} :
             SetsInt(n, 1)

C4_Witness ==
  /\ Done
  /\ SetsInt("HAVE_ISNAN", 1)
  /\ SetsInt("HAVE_USLEEP", 1)
  /\ SetsInt("HAVE_MALLOC_USABLE_SIZE", 1)

C6_EntryKinds ==
  Done => \A n \in Flags :
             produced[n].def =>
               /\ ValueKind(produced[n]) \in {"integer", "mode", "presence"}
               /\ ValueKind(produced[n]) = "presence" =>
                    /\ macros[n].def
                    /\ n \in InspectedFlags => paths[n] \in {"undecided", "live"}

C6_Witness ==
  /\ Done
  /\ \E n \in HeaderFlags : ValueKind(produced[n]) = "integer"
  /\ \E n \in HeaderFlags : ValueKind(produced[n]) = "presence"
  /\ paths["SQLITE_OMIT_UTF16"] = "live"

\* C7: the header holds only comments, blank lines and unconditional
\* definitions; every definition takes effect on every consumption, and two
\* consumptions produce the same mapping whatever the command lines predefined.
C7_Unconditional ==
  /\ \A i \in Lines : Header[i].kind \in Declarative
  /\ Done => /\ \A i \in DefinitionLines :
                  produced[Header[i].name] = Defined(Header[i].body)
             /\ (unit > 1 /\ prev # NoMapping) => produced = prev

C7_Witness ==
  /\ Done
  /\ unit > 1
  /\ prev # NoMapping
  /\ produced = prev
  /\ diag # {}

\* C8 as claimed: the flag list is 29 lines long and every line is declarative.
C8_Original ==
  Done => /\ LinesRead = 29
          /\ \A i \in Lines : Header[i].kind \in Declarative

\* C8 amended: the flag list is 30 lines long, 29 of them ended by a newline
\* and the last one not, and every line is declarative.
C8_ThirtyLines ==
  Done => /\ LinesRead = 30
          /\ NewlineCount = 29
          /\ \A i \in Lines : Header[i].kind \in Declarative

C8_Witness ==
  /\ Done
  /\ LinesRead = 30
  /\ produced["SQLITE_UNTESTABLE"].def

\* C9: in the mapping the header produces, SQLITE_OS_OTHER = 1 goes with
\* SQLITE_DEFAULT_LOCKING_MODE = 1.
C9_LockingMode ==
  Done => (SetsInt("SQLITE_OS_OTHER", 1) => SetsInt("SQLITE_DEFAULT_LOCKING_MODE", 1))

C9_Witness ==
  /\ Done
  /\ SetsInt("SQLITE_OS_OTHER", 1)
  /\ SetsInt("SQLITE_DEFAULT_LOCKING_MODE", 1)
  /\ "SQLITE_DEFAULT_LOCKING_MODE" \in diag

\* The mapping of the header read top to bottom from an empty command line.
RECURSIVE InOrder(_, _, _)
InOrder(env, stack, i) ==
  IF i > Len(Header) THEN env
  ELSE InOrder(ApplyMacros(env, Header[i], Active(stack)),
               ApplyCond(stack, env, Header[i]), i + 1)

InOrderMapping == InOrder(NoMapping, << >>, 1)

\* C10: no flag name is defined twice, so with the lines taken in any order
\* no definition overrides or conflicts with another, and each flag stands as
\* reading the header top to bottom leaves it.
C10_OrderIndependent ==
  /\ \A i, j \in DefinitionLines : Header[i].name = Header[j].name => i = j
  /\ diag = {}
  /\ status # "error"
  /\ \A i \in DefinitionLines \ remaining :
       produced[Header[i].name] = InOrderMapping[Header[i].name]
  /\ Done => produced = InOrderMapping

\* Line 26 has been read before lines 3 and 4.
C10_Witness ==
  /\ 26 \notin remaining
  /\ {3, 4} \subseteq remaining
  /\ SetsInt("SQLITE_DEFAULT_LOCKING_MODE", 1)
  /\ ~produced["SQLITE_OS_OTHER"].def

====
